---------------------------- MODULE Spec2Model ----------------------------
(***************************************************************************)
(* Model of the two backtest reporting tools of cmd/backtest:              *)
(*   analyze_backtests.py  (full analysis: parse_csv, analyze_backtests,   *)
(*                          print_analysis)                                *)
(*   compare_results.py    (comparison:   parse_csv, analyze_file, the     *)
(*                          cross-file summary of __main__)                *)
(*                                                                         *)
(* Conventions of the model                                                *)
(*  - A CSV data row is a record of its cells.  A cell holds a string, or  *)
(*    None when csv.DictReader filled it in for a row shorter than the     *)
(*    header, or NoKey when the header has no such column.                 *)
(*  - Money is a Python float.  A float is modelled as an integer that has *)
(*    at most FloatBits significant bits (binary64 has 53); every addition *)
(*    rounds to nearest, ties to even, as IEEE-754 does.  Amounts such as  *)
(*    0.1, 0.2 and 0.3 fill the 53 bits, so their sums round: in CPython   *)
(*    (0.1 + 0.2) + 0.3 is 0.6000000000000001 and 0.1 + (0.2 + 0.3) is     *)
(*    0.6.  100 and 1 do the same with FloatBits = 5.                      *)
(*  - Counts are Python ints and exact.                                    *)
(*  - A quotient of two numbers (win rate, average) is kept as the         *)
(*    fraction [n, d] and compared by cross multiplication.                *)
(*  - A timestamp is the minute of the day it names; .hour is minute \div  *)
(*    60 and a duration is the difference in minutes.  A timestamp with a  *)
(*    trailing Z or an offset is aware, one without is naive; Mixed says   *)
(*    that the entry and the exit time of a row differ in this, and their  *)
(*    difference is then a TypeError.                                      *)
(*  - Standard output is the sequence of the headings and list entries     *)
(*    printed so far; the lines between two headings are left out.         *)
(*  - A str is a TLA+ string; Chars spells the strings that take part in a *)
(*    substring test.                                                      *)
(***************************************************************************)
EXTENDS Integers, Sequences, FiniteSets, TLC

(***************************************************************************)
(* Bounds of the model                                                     *)
(***************************************************************************)
\* total number of data rows in the file system
MaxRows == 3
\* number of command-line arguments
MaxArgs == 2
\* significant bits of a float of the model
FloatBits == 5
\* total number of data rows in the runs that look at the share of End of
\* Day exits
MaxRowsEod == 5
\* number of data rows of the file in the parser runs
MaxRowsParse == 2
\* total number of data rows in the runs of both tools over files that may
\* be missing or malformed
MaxRowsAll == 2

Paths == {"a.csv", "b.csv"}

None == "<None>"
NoKey == "<NoKey>"

(***************************************************************************)
(* Arithmetic                                                              *)
(***************************************************************************)
Abs(x) == IF x < 0 THEN -x ELSE x

RECURSIVE Pow2(_)
Pow2(k) == IF k <= 0 THEN 1 ELSE 2 * Pow2(k - 1)

RECURSIVE BitLen(_)
BitLen(n) == IF n = 0 THEN 0 ELSE 1 + BitLen(n \div 2)

\* round to nearest float, ties to even
Round(x) ==
    LET a   == Abs(x)
        ulp == Pow2(BitLen(a) - FloatBits)
        q   == a \div ulp
        r   == a % ulp
        up  == (2 * r > ulp) \/ (2 * r = ulp /\ q % 2 = 1)
        m   == (IF up THEN q + 1 ELSE q) * ulp
    IN  IF x < 0 THEN -m ELSE m

\* float + float
FAdd(x, y) == Round(x + y)

\* sum(xs): left fold of + from the int 0
RECURSIVE FSum(_)
FSum(xs) == IF xs = << >> THEN 0
            ELSE FAdd(FSum(SubSeq(xs, 1, Len(xs) - 1)), xs[Len(xs)])

\* the same sum in exact arithmetic
RECURSIVE ExactSum(_)
ExactSum(xs) == IF xs = << >> THEN 0 ELSE xs[1] + ExactSum(Tail(xs))

\* float(cell)
Float(cell) == Round(cell)

\* x / y as a fraction with a positive denominator
Frac(x, y) == IF y < 0 THEN [n |-> -x, d |-> -y] ELSE [n |-> x, d |-> y]
Zero == [n |-> 0, d |-> 1]
\* f < k and f > k for a fraction f and an integer k
FLess(f, k) == f.n < k * f.d
FGreater(f, k) == f.n > k * f.d

(***************************************************************************)
(* Strings: the substring test  needle in s                                *)
(***************************************************************************)
Chars(s) ==
    CASE s = "End of Day"    -> <<"E","n","d"," ","o","f"," ","D","a","y">>
      [] s = "Stop Loss"     -> <<"S","t","o","p"," ","L","o","s","s">>
      [] s = "Trailing Stop" -> <<"T","r","a","i","l","i","n","g"," ","S","t","o","p">>
      [] s = "Target"        -> <<"T","a","r","g","e","t">>
      [] s = "Target 1"      -> <<"T","a","r","g","e","t"," ","1">>
      [] s = "Time Decay"    -> <<"T","i","m","e"," ","D","e","c","a","y">>
      [] s = "Trailing Stop - Target 1" ->
            <<"T","r","a","i","l","i","n","g"," ","S","t","o","p"," ","-"," ",
              "T","a","r","g","e","t"," ","1">>
      [] s = "End of Day Stop Loss" ->
            <<"E","n","d"," ","o","f"," ","D","a","y"," ",
              "S","t","o","p"," ","L","o","s","s">>

\* faulty variant: == for in
Contains_Equal(needle, s) == needle = s

\* needle in s
Contains(needle, s) ==
    LET n == Chars(needle)
        h == Chars(s)
    IN  \E k \in 0..(Len(h) - Len(n)) : SubSeq(h, k + 1, k + Len(n)) = n

(***************************************************************************)
(* parse_csv                                                               *)
(***************************************************************************)
\* the trade built from one row (lines 20-32)
TradeOf(row) ==
    [Ticker     |-> row.Ticker,
     EntryTime  |-> row.EntryTime,
     ExitTime   |-> row.ExitTime,
     Reason     |-> row.Reason,
     Commission |-> Float(row.Commission),
     NetPnL     |-> Float(row.NetPnL),
     Direction  |-> IF row.Direction = NoKey THEN "SHORT" ELSE row.Direction,
     Mixed      |-> row.Mixed]

\* faulty variant: only the empty string is skipped
SkipRow_EmptyOnly(row) == row.Ticker = ""

\* not row.get('Ticker')
SkipRow(row) == row.Ticker \in {None, NoKey, ""}

\* the loop over the rows; err when a kept row has a malformed field
RECURSIVE parse_csv(_)
parse_csv(rows) ==
    IF rows = << >> THEN [err |-> FALSE, trades |-> << >>]
    ELSE LET row  == Head(rows)
             rest == parse_csv(Tail(rows))
         IN  IF SkipRow(row) THEN rest
             ELSE IF row.Bad \/ rest.err THEN [err |-> TRUE, trades |-> << >>]
             ELSE [err |-> FALSE, trades |-> <<TradeOf(row)>> \o rest.trades]

\* parse_csv(filepath): open raises when no file has this name
open_and_parse(files, absent, filepath) ==
    IF filepath \in absent THEN [err |-> TRUE, trades |-> << >>]
    ELSE parse_csv(files[filepath])

(***************************************************************************)
(* Helpers shared by the two tools                                         *)
(***************************************************************************)
NetPnLs(ts) == [j \in 1..Len(ts) |-> ts[j].NetPnL]
Commissions(ts) == [j \in 1..Len(ts) |-> ts[j].Commission]
\* sum(1 for t in ts if t['NetPnL'] > 0) and the same with < 0
CountWins(ts) == Len(SelectSeq(ts, LAMBDA t : t.NetPnL > 0))
CountLosses(ts) == Len(SelectSeq(ts, LAMBDA t : t.NetPnL < 0))
\* faulty variant: the division is made whatever n is
WinRate_Unguarded(w, n) == Frac(w * 100, n)

\* (wins / n * 100) if n > 0 else 0
WinRate(w, n) == IF n > 0 THEN Frac(w * 100, n) ELSE Zero
\* sum(x) / len(x) if x else 0
Average(ts) == IF ts # << >> THEN Frac(FSum(NetPnLs(ts)), Len(ts)) ELSE Zero
\* stats['total_pnl'] / stats['count'] if stats['count'] > 0 else 0
AvgPnl(stats) == IF stats.count > 0 THEN Frac(stats.total_pnl, stats.count) ELSE Zero
\* the quotient of two quotients
FDiv(f, g) == Frac(f.n * g.d, f.d * g.n)
\* datetime.hour
Hour(time) == time \div 60

\* a dict is the sequence of its entries in insertion order
DictHas(d, k) == \E j \in 1..Len(d) : d[j].key = k
DictIndex(d, k) == CHOOSE j \in 1..Len(d) : d[j].key = k
\* faulty variant: the default entry is inserted whether or not k is present
DictTouch_Always(d, k, default) == Append(d, [default EXCEPT !.key = k])

\* d[k] of a defaultdict: inserts default when k is missing
DictTouch(d, k, default) ==
    IF DictHas(d, k) THEN d ELSE Append(d, [default EXCEPT !.key = k])
\* d[k] = v of a dict: a key that is present keeps its position
DictSet(d, k, v) ==
    IF DictHas(d, k) THEN [d EXCEPT ![DictIndex(d, k)] = v] ELSE Append(d, v)

\* sorted(d.items(), key=lambda x: x[1]['count'], reverse=True): stable
RECURSIVE SortByCountDesc(_)
SortByCountDesc(d) ==
    IF d = << >> THEN << >>
    ELSE LET x    == d[Len(d)]
             s    == SortByCountDesc(SubSeq(d, 1, Len(d) - 1))
             keep == Cardinality({j \in 1..Len(s) : s[j].count >= x.count})
         IN  SubSeq(s, 1, keep) \o <<x>> \o SubSeq(s, keep + 1, Len(s))

(***************************************************************************)
(* analyze_backtests.py                                                    *)
(***************************************************************************)
\* the statistics of one file (lines 46-77); the gross P&L and the largest
\* win and loss, which nothing reads, are left out
FileStats(filepath, trades) ==
    [key           |-> filepath,
     total_trades  |-> Len(trades),
     wins          |-> CountWins(trades),
     losses        |-> CountLosses(trades),
     win_rate      |-> WinRate(CountWins(trades), Len(trades)),
     total_net_pnl |-> FSum(NetPnLs(trades)),
     total_commission |-> FSum(Commissions(trades)),
     avg_win       |-> Average(SelectSeq(trades, LAMBDA t : t.NetPnL > 0)),
     avg_loss      |-> Average(SelectSeq(trades, LAMBDA t : t.NetPnL < 0)),
     trades        |-> trades]

\* all_trades of print_analysis (lines 91-93)
RECURSIVE AllTradesOf(_)
AllTradesOf(file_stats) ==
    IF file_stats = << >> THEN << >>
    ELSE Head(file_stats).trades \o AllTradesOf(Tail(file_stats))

\* the exit-reason loop (lines 120-128)
RECURSIVE ExitReasonsA(_)
ExitReasonsA(ts) ==
    IF ts = << >> THEN << >>
    ELSE LET trade == ts[Len(ts)]
             d == DictTouch(ExitReasonsA(SubSeq(ts, 1, Len(ts) - 1)), trade.Reason,
                            [key |-> "", count |-> 0, total_pnl |-> 0,
                             wins |-> 0, losses |-> 0])
             j == DictIndex(d, trade.Reason)
         IN  [d EXCEPT ![j] =
                [key       |-> d[j].key,
                 count     |-> d[j].count + 1,
                 total_pnl |-> FAdd(d[j].total_pnl, trade.NetPnL),
                 wins      |-> IF trade.NetPnL > 0 THEN d[j].wins + 1 ELSE d[j].wins,
                 losses    |-> IF trade.NetPnL > 0 THEN d[j].losses
                                                   ELSE d[j].losses + 1]]

\* the entry-hour loop (lines 213-220)
RECURSIVE EntryHoursA(_)
EntryHoursA(ts) ==
    IF ts = << >> THEN << >>
    ELSE LET trade == ts[Len(ts)]
             d == DictTouch(EntryHoursA(SubSeq(ts, 1, Len(ts) - 1)),
                            Hour(trade.EntryTime),
                            [key |-> -1, count |-> 0, total_pnl |-> 0])
             j == DictIndex(d, Hour(trade.EntryTime))
         IN  [d EXCEPT ![j] = [key       |-> d[j].key,
                               count     |-> d[j].count + 1,
                               total_pnl |-> FAdd(d[j].total_pnl, trade.NetPnL)]]

\* the ticker loop (lines 234-240)
RECURSIVE TickerStats(_)
TickerStats(ts) ==
    IF ts = << >> THEN << >>
    ELSE LET trade == ts[Len(ts)]
             d == DictTouch(TickerStats(SubSeq(ts, 1, Len(ts) - 1)), trade.Ticker,
                            [key |-> "", count |-> 0, total_pnl |-> 0, wins |-> 0])
             j == DictIndex(d, trade.Ticker)
         IN  [d EXCEPT ![j] =
                [key       |-> d[j].key,
                 count     |-> d[j].count + 1,
                 total_pnl |-> FAdd(d[j].total_pnl, trade.NetPnL),
                 wins      |-> IF trade.NetPnL > 0 THEN d[j].wins + 1 ELSE d[j].wins]]

\* the value of the local win_rate after a display loop over the sorted
\* segments: each iteration assigns it (lines 131 and 244)
WinRateAfterLoop(win_rate, segments) ==
    IF segments = << >> THEN win_rate
    ELSE LET stats == segments[Len(segments)]
         IN  WinRate(stats.wins, stats.count)

\* sorted(...)[:10]
Top10(s) == SubSeq(s, 1, IF Len(s) < 10 THEN Len(s) ELSE 10)

\* duration in minutes (line 277)
Duration(trade) == trade.ExitTime - trade.EntryTime

\* durations.sort(key=lambda x: x[0]): stable, ascending
RECURSIVE SortByDuration(_)
SortByDuration(ts) ==
    IF ts = << >> THEN << >>
    ELSE LET x    == ts[Len(ts)]
             s    == SortByDuration(SubSeq(ts, 1, Len(ts) - 1))
             keep == Cardinality({j \in 1..Len(s) : Duration(s[j]) <= Duration(x)})
         IN  SubSeq(s, 1, keep) \o <<x>> \o SubSeq(s, keep + 1, Len(s))

NoIssues == "No major issues identified. Strategy appears well-balanced."

\* faulty variant: the entries are appended whether or not the rule fires
Entries_Always(fires, title, advice) == <<title, advice>>

\* the entries one rule appends: its title and its advice
Entries(fires, title, advice) == IF fires THEN <<title, advice>> ELSE << >>

\* faulty variant: the entry is appended whether or not a rule fired
OrNoIssues_Always(improvements) == Append(improvements, NoIssues)

\* if not improvements: improvements.append(...) (lines 327-328)
OrNoIssues(improvements) ==
    IF improvements = << >> THEN <<NoIssues>> ELSE improvements

\* faulty variant: >= for >
EodShare_AtLeast(eod_trades, total_trades) ==
    Len(eod_trades) * 10 >= total_trades * 2

\* len(eod_trades) > total_trades * 0.2
EodShare(eod_trades, total_trades) == Len(eod_trades) * 10 > total_trades * 2

\* abs(avg_win / avg_loss) < 1.5 if avg_loss != 0 else False
RiskReward(avg_win, avg_loss) ==
    IF avg_loss.n # 0
    THEN 2 * Abs(avg_win.n * avg_loss.d) < 3 * Abs(avg_loss.n * avg_win.d)
    ELSE FALSE

\* (total_commission / abs(total_net_pnl) * 100) if total_net_pnl != 0 else 0
CommissionPct(total_commission, total_net_pnl) ==
    IF total_net_pnl # 0 THEN Frac(total_commission * 100, Abs(total_net_pnl))
    ELSE Zero

\* print_analysis: the values it computes and the improvement list it
\* prints; exit_hours and the top-10 lists, which feed no rule, are left out
print_analysis(file_stats) ==
    LET all_trades       == AllTradesOf(file_stats)
        total_trades     == Len(all_trades)
        wins             == CountWins(all_trades)
        losses           == CountLosses(all_trades)
        total_net_pnl    == FSum(NetPnLs(all_trades))
        total_commission == FSum(Commissions(all_trades))
        win_rate0        == WinRate(wins, total_trades)
        avg_win          == Average(SelectSeq(all_trades, LAMBDA t : t.NetPnL > 0))
        avg_loss         == Average(SelectSeq(all_trades, LAMBDA t : t.NetPnL < 0))
        exit_reasons     == ExitReasonsA(all_trades)
        win_rate1        == WinRateAfterLoop(win_rate0, SortByCountDesc(exit_reasons))
        eod_trades       == SelectSeq(all_trades, LAMBDA t : t.Reason = "End of Day")
        stop_loss_trades == SelectSeq(all_trades,
                                      LAMBDA t : Contains("Stop Loss", t.Reason))
        sl_avg_loss      == Average(stop_loss_trades)
        trailing_stop_trades == SelectSeq(all_trades,
                                      LAMBDA t : Contains("Trailing Stop", t.Reason))
        target_trades    == SelectSeq(all_trades,
                                      LAMBDA t : Contains("Target", t.Reason))
        commission_pct   == CommissionPct(total_commission, total_net_pnl)
        entry_hours      == EntryHoursA(all_trades)
        ticker_stats     == TickerStats(all_trades)
        sorted_tickers   == Top10(SortByCountDesc(ticker_stats))
        win_rate         == WinRateAfterLoop(win_rate1, sorted_tickers)
        durations        == SortByDuration(all_trades)
        improvements     ==
            Entries(eod_trades # << >> /\ EodShare(eod_trades, total_trades),
                    "1. EOD EXITS", "   -> Consider: Earlier exit signals")
         \o Entries(stop_loss_trades # << >> /\ FLess(sl_avg_loss, -50),
                    "2. STOP LOSSES", "   -> Consider: Tighter stops")
         \o Entries(trailing_stop_trades # << >>
                       /\ FSum(NetPnLs(trailing_stop_trades)) < 0,
                    "3. TRAILING STOPS", "   -> Consider: Adjusting trailing stop")
         \o Entries(FGreater(commission_pct, 10),
                    "4. COMMISSIONS", "   -> Consider: Reducing trade frequency")
         \o Entries(FLess(win_rate, 50),
                    "5. WIN RATE", "   -> Consider: Improving entry filters")
         \o Entries(RiskReward(avg_win, avg_loss),
                    "6. RISK/REWARD", "   -> Consider: Letting winners run longer")
    IN  [all_trades       |-> all_trades,
         total_trades     |-> total_trades,
         wins             |-> wins,
         losses           |-> losses,
         total_net_pnl    |-> total_net_pnl,
         total_commission |-> total_commission,
         overall_win_rate |-> win_rate0,
         avg_win          |-> avg_win,
         avg_loss         |-> avg_loss,
         exit_reasons     |-> exit_reasons,
         eod_trades       |-> eod_trades,
         stop_loss_trades |-> stop_loss_trades,
         sl_avg_loss      |-> sl_avg_loss,
         trailing_stop_trades |-> trailing_stop_trades,
         target_trades    |-> target_trades,
         commission_pct   |-> commission_pct,
         entry_hours      |-> entry_hours,
         ticker_stats     |-> ticker_stats,
         win_rate         |-> win_rate,
         short_trades     |-> SelectSeq(durations, LAMBDA t : Duration(t) < 30),
         medium_trades    |-> SelectSeq(durations,
                                LAMBDA t : 30 <= Duration(t) /\ Duration(t) < 120),
         long_trades      |-> SelectSeq(durations, LAMBDA t : Duration(t) >= 120),
         improvements     |-> OrNoIssues(improvements)]

\* the quotients print_analysis evaluates for printing only, each under the
\* condition the code evaluates it under; r holds the values it has computed
PrintedRatios(r) ==
    LET durations == r.short_trades \o r.medium_trades \o r.long_trades
        Share(ts) == Frac(Len(ts) * 100, r.total_trades)
        Of(ts, ratios) == IF ts # << >> THEN ratios ELSE {}
    IN  \* lines 114 and 324
        (IF r.avg_loss.n # 0 THEN {FDiv(r.avg_win, r.avg_loss)} ELSE {})
        \* lines 131-132, 227 and 244-245
        \cup {WinRate(r.exit_reasons[j].wins, r.exit_reasons[j].count) :
                 j \in 1..Len(r.exit_reasons)}
        \cup {AvgPnl(r.exit_reasons[j]) : j \in 1..Len(r.exit_reasons)}
        \cup {AvgPnl(r.entry_hours[j]) : j \in 1..Len(r.entry_hours)}
        \cup {WinRate(r.ticker_stats[j].wins, r.ticker_stats[j].count) :
                 j \in 1..Len(r.ticker_stats)}
        \cup {AvgPnl(r.ticker_stats[j]) : j \in 1..Len(r.ticker_stats)}
        \* lines 146-147, 159, 179 and 193-194
        \cup Of(r.eod_trades, {WinRate(CountWins(r.eod_trades), Len(r.eod_trades)),
                               Share(r.eod_trades)})
        \cup Of(r.stop_loss_trades, {r.sl_avg_loss})
        \cup Of(r.trailing_stop_trades,
                {WinRate(CountWins(r.trailing_stop_trades),
                         Len(r.trailing_stop_trades))})
        \cup Of(r.target_trades, {WinRate(CountWins(r.target_trades),
                                          Len(r.target_trades)),
                                  Share(r.target_trades)})
        \* lines 281 and 289-294
        \cup {IF durations # << >>
              THEN Frac(ExactSum([j \in 1..Len(durations) |-> Duration(durations[j])]),
                        Len(durations))
              ELSE Zero}
        \cup Of(r.short_trades, {Frac(FSum(NetPnLs(r.short_trades)),
                                      Len(r.short_trades))})
        \cup Of(r.medium_trades, {Frac(FSum(NetPnLs(r.medium_trades)),
                                       Len(r.medium_trades))})
        \cup Of(r.long_trades, {Frac(FSum(NetPnLs(r.long_trades)),
                                     Len(r.long_trades))})
        \* line 304
        \cup (IF r.eod_trades # << >> /\ EodShare(r.eod_trades, r.total_trades)
              THEN {Share(r.eod_trades)} ELSE {})

\* the subtraction of line 277 raises TypeError for a trade whose entry and
\* exit time are not both aware or both naive
DurationRaises(ts) == \E j \in 1..Len(ts) : ts[j].Mixed

\* the headings print_analysis has printed when it reaches the loop over the
\* durations (lines 83-274); r holds the values it has computed
PrintedBeforeDurations(r) ==
    <<"BACKTEST ANALYSIS - IMPROVEMENT OPPORTUNITIES", "OVERALL STATISTICS",
      "EXIT REASON ANALYSIS">>
 \o (IF r.eod_trades # << >>
     THEN <<"END OF DAY EXITS - IMPROVEMENT OPPORTUNITY">> ELSE << >>)
 \o (IF r.stop_loss_trades # << >> THEN <<"STOP LOSS ANALYSIS">> ELSE << >>)
 \o (IF r.trailing_stop_trades # << >> THEN <<"TRAILING STOP ANALYSIS">> ELSE << >>)
 \o (IF r.target_trades # << >> THEN <<"TARGET EXITS ANALYSIS">> ELSE << >>)
 \o <<"COMMISSION IMPACT", "TIME-BASED PATTERNS", "Entry Hour Performance:",
      "TICKER PERFORMANCE (Top 10 by trade count)", "LARGEST LOSSES (Top 10)",
      "LARGEST WINS (Top 10)", "TRADE DURATION ANALYSIS">>

\* the heading and the list it prints after the durations (lines 288-332)
PrintedAfterDurations(r) == <<"KEY IMPROVEMENT OPPORTUNITIES">> \o r.improvements

(***************************************************************************)
(* compare_results.py                                                      *)
(***************************************************************************)
\* sum() of ints
RECURSIVE ISum(_)
ISum(xs) == IF xs = << >> THEN 0 ELSE xs[1] + ISum(Tail(xs))

\* the exit-reason loop of analyze_file (lines 46-52)
RECURSIVE ExitReasonsB(_)
ExitReasonsB(ts) ==
    IF ts = << >> THEN << >>
    ELSE LET trade == ts[Len(ts)]
             d == DictTouch(ExitReasonsB(SubSeq(ts, 1, Len(ts) - 1)), trade.Reason,
                            [key |-> "", count |-> 0, total_pnl |-> 0, wins |-> 0])
             j == DictIndex(d, trade.Reason)
         IN  [d EXCEPT ![j] =
                [key       |-> d[j].key,
                 count     |-> d[j].count + 1,
                 total_pnl |-> FAdd(d[j].total_pnl, trade.NetPnL),
                 wins      |-> IF trade.NetPnL > 0 THEN d[j].wins + 1 ELSE d[j].wins]]

\* the entry-hour loop of analyze_file (lines 63-65)
RECURSIVE EntryHoursB(_)
EntryHoursB(ts) ==
    IF ts = << >> THEN << >>
    ELSE LET trade == ts[Len(ts)]
             d == DictTouch(EntryHoursB(SubSeq(ts, 1, Len(ts) - 1)),
                            Hour(trade.EntryTime), [key |-> -1, count |-> 0])
             j == DictIndex(d, Hour(trade.EntryTime))
         IN  [d EXCEPT ![j] = [key |-> d[j].key, count |-> d[j].count + 1]]

\* analyze_file, given the trades parse_csv returned (lines 39-84)
analyze_file(filepath, trades) ==
    LET eod_trades        == SelectSeq(trades, LAMBDA t : t.Reason = "End of Day")
        time_decay_trades == SelectSeq(trades, LAMBDA t : t.Reason = "Time Decay")
        afternoon_entries == SelectSeq(trades, LAMBDA t : Hour(t.EntryTime) >= 14)
    IN  [filepath          |-> filepath,
         total_trades      |-> Len(trades),
         wins              |-> CountWins(trades),
         losses            |-> CountLosses(trades),
         win_rate          |-> WinRate(CountWins(trades), Len(trades)),
         total_net_pnl     |-> FSum(NetPnLs(trades)),
         exit_reasons      |-> ExitReasonsB(trades),
         eod_trades        |-> Len(eod_trades),
         eod_pnl           |-> FSum(NetPnLs(eod_trades)),
         time_decay_trades |-> Len(time_decay_trades),
         time_decay_pnl    |-> FSum(NetPnLs(time_decay_trades)),
         afternoon_entries |-> Len(afternoon_entries),
         entry_hours       |-> EntryHoursB(trades)]

\* faulty variant: the first result is left out of the totals
Summarize_SkipFirst(rs) ==
    LET tl == IF rs = << >> THEN << >> ELSE Tail(rs)
        total_trades == ISum([j \in 1..Len(tl) |-> tl[j].total_trades])
        total_wins   == ISum([j \in 1..Len(tl) |-> tl[j].wins])
    IN  [total_trades         |-> total_trades,
         total_wins           |-> total_wins,
         total_losses         |-> ISum([j \in 1..Len(tl) |-> tl[j].losses]),
         total_pnl            |-> FSum([j \in 1..Len(tl) |-> tl[j].total_net_pnl]),
         total_eod            |-> ISum([j \in 1..Len(tl) |-> tl[j].eod_trades]),
         total_eod_pnl        |-> FSum([j \in 1..Len(tl) |-> tl[j].eod_pnl]),
         total_time_decay     |-> ISum([j \in 1..Len(tl) |-> tl[j].time_decay_trades]),
         total_time_decay_pnl |-> FSum([j \in 1..Len(tl) |-> tl[j].time_decay_pnl]),
         total_afternoon      |-> ISum([j \in 1..Len(tl) |-> tl[j].afternoon_entries]),
         overall_win_rate     |-> WinRate(total_wins, total_trades)]

\* the cross-file totals (lines 141-151)
Summarize(rs) ==
    LET total_trades == ISum([j \in 1..Len(rs) |-> rs[j].total_trades])
        total_wins   == ISum([j \in 1..Len(rs) |-> rs[j].wins])
    IN  [total_trades         |-> total_trades,
         total_wins           |-> total_wins,
         total_losses         |-> ISum([j \in 1..Len(rs) |-> rs[j].losses]),
         total_pnl            |-> FSum([j \in 1..Len(rs) |-> rs[j].total_net_pnl]),
         total_eod            |-> ISum([j \in 1..Len(rs) |-> rs[j].eod_trades]),
         total_eod_pnl        |-> FSum([j \in 1..Len(rs) |-> rs[j].eod_pnl]),
         total_time_decay     |-> ISum([j \in 1..Len(rs) |-> rs[j].time_decay_trades]),
         total_time_decay_pnl |-> FSum([j \in 1..Len(rs) |-> rs[j].time_decay_pnl]),
         total_afternoon      |-> ISum([j \in 1..Len(rs) |-> rs[j].afternoon_entries]),
         overall_win_rate     |-> WinRate(total_wins, total_trades)]

\* the quotients printed for one file (lines 112-113 and 122-123)
PrintedRatiosOfFile(result, trades) ==
    {WinRate(result.exit_reasons[j].wins, result.exit_reasons[j].count) :
        j \in 1..Len(result.exit_reasons)}
    \cup {AvgPnl(result.exit_reasons[j]) : j \in 1..Len(result.exit_reasons)}
    \cup (IF result.eod_trades > 0
          THEN {Frac(CountWins(SelectSeq(trades, LAMBDA t : t.Reason = "End of Day"))
                        * 100, result.eod_trades)}
          ELSE {})

\* the quotient printed with the summary (lines 162-165)
PrintedRatiosOfSummary(s, trades) ==
    IF s.total_eod > 0
    THEN {IF s.total_eod > 0
          THEN Frac(CountWins(SelectSeq(trades, LAMBDA t : t.Reason = "End of Day"))
                       * 100, s.total_eod)
          ELSE Zero}
    ELSE {}

\* the heading printed before the loop over the files (lines 94-97)
PrintedBanner == <<"NEW BACKTEST RESULTS ANALYSIS (After Fixes)">>

\* the headings printed for one file (lines 103-134)
PrintedFile(filepath) ==
    <<"File:", filepath, "Exit Reasons:", "Fix Evaluation:", "Entry Hours:">>

\* the headings printed after the loop (lines 137-197)
PrintedSummary ==
    <<"SUMMARY ACROSS ALL NEW BACKTESTS", "Fix Effectiveness:",
      "Comparison to Previous Results:", "4. Trailing Stop Fix:">>

(***************************************************************************)
(* State                                                                   *)
(***************************************************************************)
VARIABLES
    fs,          \* the file system: path -> the data rows of the CSV file
    missing,     \* the paths that name no file
    stdout,      \* what has been printed to standard output
    argv,        \* sys.argv[1:]
    pc,          \* where the running tool is
    idx,         \* the file the loop over filepaths is at (1-based)
    all_trades,  \* all_trades of analyze_backtests, and of lines 185-187 of
                 \* compare_results.py
    file_stats,  \* analyze_backtests: file_stats
    report,      \* << >>, or <<r>> once print_analysis has run
    results,     \* compare_results.py: results
    summary,     \* << >>, or <<s>> once the cross-file summary is computed
    parsed       \* << >>, or <<p>> once parse_csv has returned or raised

vars == <<fs, missing, stdout, argv, pc, idx, all_trades, file_stats, report,
          results, summary, parsed>>

(***************************************************************************)
(* Inputs                                                                  *)
(***************************************************************************)
Row(ticker, entry, exit, reason, net, commission) ==
    [Ticker |-> ticker, EntryTime |-> entry, ExitTime |-> exit, Reason |-> reason,
     NetPnL |-> net, Commission |-> commission, Direction |-> "SHORT",
     Bad |-> FALSE, Mixed |-> FALSE]

\* the rows of the full-analysis runs
Rows ==
    { Row("AAPL", 570, 590, "Target 1", 100, 2),
      Row("AAPL", 600, 630, "Stop Loss", -60, 2),
      Row("MSFT", 840, 960, "End of Day", 0, 2),
      Row("MSFT", 571, 690, "Trailing Stop - Target 1", -1, 2),
      Row("AAPL", 601, 630, "End of Day Stop Loss", 1, 2) }

\* the rows of the runs that look at the share of End of Day exits
RowsEod ==
    { Row("AAPL", 601, 630, "End of Day Stop Loss", 1, 2),
      Row("MSFT", 840, 960, "End of Day", -40, 2) }

\* the rows of the comparison runs
RowsB ==
    { Row("AAPL", 570, 590, "Target 1", 100, 2),
      Row("MSFT", 840, 960, "End of Day", -40, 2),
      Row("MSFT", 600, 629, "Time Decay", 1, 2),
      Row("AAPL", 839, 900, "End of Day", 1, 2),
      Row("AAPL", 900, 930, "Trailing Stop", 0, 2) }

\* the rows of the parser runs: every kind of Ticker and Direction cell,
\* well-formed or not
RowsParse ==
    { [Ticker |-> t, EntryTime |-> 570, ExitTime |-> 590, Reason |-> "Target 1",
       NetPnL |-> 100, Commission |-> 2, Direction |-> d, Bad |-> b,
       Mixed |-> FALSE] :
         t \in {"AAPL", "MSFT", "", None},
         d \in {NoKey, None, "", "LONG"},
         b \in BOOLEAN }

\* the sequences over S of length at most n
SeqsUpTo(S, n) == UNION {[1..k -> S] : k \in 0..n}

\* argv: at least one path (the usage check of __main__)
Argvs == SeqsUpTo(Paths, MaxArgs) \ {<< >>}

\* the file systems over the rows of S with at most n rows in all
FileSystems(S, n) ==
    { f \in [Paths -> SeqsUpTo(S, n)] : Len(f["a.csv"]) + Len(f["b.csv"]) <= n }

\* the header of a file has a Direction column or it has not
OneHeader(rows) ==
    \/ \A j \in 1..Len(rows) : rows[j].Direction = NoKey
    \/ \A j \in 1..Len(rows) : rows[j].Direction # NoKey

Start(files, at) ==
    /\ fs \in files
    /\ missing = {}
    /\ stdout = << >>
    /\ argv \in Argvs
    /\ pc = at
    /\ idx = 1
    /\ all_trades = << >>
    /\ file_stats = << >>
    /\ report = << >>
    /\ results = << >>
    /\ summary = << >>
    /\ parsed = << >>

Init == Start(FileSystems(Rows, MaxRows), "analyze")

InitEod == Start(FileSystems(RowsEod, MaxRowsEod), "analyze")

InitB == Start(FileSystems(RowsB, MaxRows), "banner")

InitParse ==
    /\ Start({("a.csv" :> rows @@ "b.csv" :> << >>) :
                 rows \in {r \in SeqsUpTo(RowsParse, MaxRowsParse) : OneHeader(r)}},
             "parse")
    /\ argv = <<"a.csv">>

(***************************************************************************)
(* analyze_backtests.py: __main__                                          *)
(***************************************************************************)
\* one iteration of the loop of analyze_backtests (lines 41-77)
AnalyzeFile ==
    /\ pc = "analyze"
    /\ idx <= Len(argv)
    /\ LET filepath == argv[idx]
           p        == open_and_parse(fs, missing, filepath)
       IN  IF p.err
           THEN /\ pc' = "failed"
                /\ UNCHANGED <<idx, all_trades, file_stats>>
           ELSE /\ all_trades' = all_trades \o p.trades
                /\ file_stats' = DictSet(file_stats, filepath,
                                         FileStats(filepath, p.trades))
                /\ idx' = idx + 1
                /\ pc' = pc
    /\ UNCHANGED <<fs, missing, stdout, argv, report, results, summary, parsed>>

\* the loop is over: print_analysis(file_stats) (line 341)
PrintAnalysis ==
    /\ pc = "analyze"
    /\ idx > Len(argv)
    /\ LET r == print_analysis(file_stats)
       IN  IF DurationRaises(AllTradesOf(file_stats))
           THEN /\ stdout' = stdout \o PrintedBeforeDurations(r)
                /\ pc' = "failed"
                /\ UNCHANGED report
           ELSE /\ report' = <<r>>
                /\ stdout' = stdout \o PrintedBeforeDurations(report'[1])
                                    \o PrintedAfterDurations(report'[1])
                /\ pc' = "done"
    /\ UNCHANGED <<fs, missing, argv, idx, all_trades, file_stats, results, summary,
                   parsed>>

Next == AnalyzeFile \/ PrintAnalysis

Spec == Init /\ [][Next]_vars

SpecEod == InitEod /\ [][Next]_vars

(***************************************************************************)
(* compare_results.py: __main__                                            *)
(***************************************************************************)
\* the heading printed before any file is read (lines 91-97)
Banner ==
    /\ pc = "banner"
    /\ stdout' = stdout \o PrintedBanner
    /\ pc' = "compare"
    /\ UNCHANGED <<fs, missing, argv, idx, all_trades, file_stats, report, results,
                   summary, parsed>>

\* one iteration of the loop over filepaths (lines 99-134): analyze_file
\* raises before anything of the file is printed
CompareFile ==
    /\ pc = "compare"
    /\ idx <= Len(argv)
    /\ LET filepath == argv[idx]
           p        == open_and_parse(fs, missing, filepath)
       IN  IF p.err
           THEN /\ pc' = "failed"
                /\ UNCHANGED <<idx, results, stdout>>
           ELSE /\ results' = Append(results, analyze_file(filepath, p.trades))
                /\ stdout' = stdout \o PrintedFile(filepath)
                /\ idx' = idx + 1
                /\ pc' = pc
    /\ UNCHANGED <<fs, missing, argv, all_trades, file_stats, report, summary, parsed>>

\* the rest of __main__: the summary and the trades read again (lines 141-187)
RECURSIVE ReadAll(_, _)
ReadAll(rs, files) ==
    IF rs = << >> THEN << >>
    ELSE parse_csv(files[Head(rs).filepath]).trades \o ReadAll(Tail(rs), files)

Summary ==
    /\ pc = "compare"
    /\ idx > Len(argv)
    /\ summary' = <<Summarize(results)>>
    /\ all_trades' = ReadAll(results, fs)
    /\ stdout' = stdout \o PrintedSummary
    /\ pc' = "done"
    /\ UNCHANGED <<fs, missing, argv, idx, file_stats, report, results, parsed>>

NextB == Banner \/ CompareFile \/ Summary

SpecB == InitB /\ [][NextB]_vars

(***************************************************************************)
(* parse_csv on its own                                                    *)
(***************************************************************************)
ParseFile ==
    /\ pc = "parse"
    /\ parsed' = <<parse_csv(fs[argv[1]])>>
    /\ pc' = "done"
    /\ UNCHANGED <<fs, missing, stdout, argv, idx, all_trades, file_stats, report,
                   results, summary>>

NextParse == ParseFile

SpecParse == InitParse /\ [][NextParse]_vars

(***************************************************************************)
(* Both tools over files that may be missing or malformed                  *)
(***************************************************************************)
\* the rows of these runs: a win, a loss, a trade without profit or loss, a
\* row with a malformed cell, a row with an aware entry and a naive exit time
RowsAll ==
    { Row("AAPL", 570, 590, "Target 1", 60, 2),
      Row("AAPL", 600, 630, "Stop Loss", -60, 2),
      Row("MSFT", 840, 960, "End of Day", 0, 2),
      [Row("MSFT", 571, 690, "Target 1", 1, 2) EXCEPT !.Bad = TRUE],
      [Row("MSFT", 571, 690, "Trailing Stop", 1, 2) EXCEPT !.Mixed = TRUE] }

\* either tool is started; a path of the command line may name no file
InitAll ==
    /\ fs \in FileSystems(RowsAll, MaxRowsAll)
    /\ missing \in {m \in SUBSET Paths : \A path \in m : fs[path] = << >>}
    /\ stdout = << >>
    /\ argv \in Argvs
    /\ pc \in {"analyze", "banner"}
    /\ idx = 1
    /\ all_trades = << >>
    /\ file_stats = << >>
    /\ report = << >>
    /\ results = << >>
    /\ summary = << >>
    /\ parsed = << >>

NextAll == AnalyzeFile \/ PrintAnalysis \/ Banner \/ CompareFile \/ Summary

SpecAll == InitAll /\ [][NextAll]_vars

(***************************************************************************)
(* Properties of the full analysis                                         *)
(***************************************************************************)
Printed == report # << >>
R == report[1]
InList(entry) == \E j \in 1..Len(R.improvements) : R.improvements[j] = entry
RuleTitles == {"1. EOD EXITS", "2. STOP LOSSES", "3. TRAILING STOPS",
               "4. COMMISSIONS", "5. WIN RATE", "6. RISK/REWARD"}
CountOf(ts, reason) == Cardinality({j \in 1..Len(ts) : ts[j].Reason = reason})

\* C1: the rank-5 rule is in the improvement list exactly when the overall
\* win rate (wins over all trades, times 100; 0 without trades) is below 50,
\* whatever the win rate of a single exit-reason or ticker segment is.
C1_LowWinRateIffOverallBelow50 ==
    Printed =>
        (InList("5. WIN RATE") <=>
            (IF R.total_trades = 0 THEN TRUE
             ELSE CountWins(R.all_trades) * 100 < 50 * R.total_trades))

\* the reasons and the aggregates a zero-netPnL trade takes part in
HasZero(ts) == \E j \in 1..Len(ts) : ts[j].NetPnL = 0
NeitherWinNorLoss(w, l, n, ts) ==
    /\ w + l <= n
    /\ HasZero(ts) => w + l < n
    /\ n = 0 => (w = 0 /\ l = 0)

\* C2: in the aggregate of every file, in the overall aggregate and in the
\* aggregate of every exit-reason segment, a trade with netPnL = 0 is
\* neither a win nor a loss: wins + losses <= count, strictly less when the
\* aggregated trades hold a zero-netPnL trade, and both 0 for no trades.
C2_ZeroIsNeitherWinNorLoss ==
    /\ \A j \in 1..Len(file_stats) :
          NeitherWinNorLoss(file_stats[j].wins, file_stats[j].losses,
                            file_stats[j].total_trades, file_stats[j].trades)
    /\ Printed =>
        /\ NeitherWinNorLoss(R.wins, R.losses, R.total_trades, R.all_trades)
        /\ \A j \in 1..Len(R.exit_reasons) :
              LET seg == R.exit_reasons[j]
              IN  NeitherWinNorLoss(seg.wins, seg.losses, seg.count,
                     SelectSeq(R.all_trades, LAMBDA t : t.Reason = seg.key))

\* C3: the rank-1 rule is in the improvement list exactly when
\* eodCount * 5 > totalCount, eodCount being the number of trades whose
\* reason is exactly "End of Day": not at exactly 20%, never for eodCount = 0.
C3_EodRuleIffOverTwentyPercent ==
    Printed =>
        LET eodCount == CountOf(R.all_trades, "End of Day")
        IN  /\ InList("1. EOD EXITS") <=> eodCount * 5 > R.total_trades
            /\ eodCount * 5 = R.total_trades => ~InList("1. EOD EXITS")
            /\ eodCount = 0 => ~InList("1. EOD EXITS")

\* a run at exactly 20% End of Day exits, next to a reason that only
\* contains "End of Day"
C3_Witness ==
    /\ Printed
    /\ CountOf(R.all_trades, "End of Day") = 1
    /\ R.total_trades = 5
    /\ ~InList("1. EOD EXITS")

\* C4 as stated: the informational entry is in the list exactly when no
\* rule fired, it is then the only entry, and the run over zero trades is
\* such a run.
C4_NoIssuesIffNoRule_ZeroTradesIncluded ==
    Printed =>
        /\ InList(NoIssues) <=> ~\E t \in RuleTitles : InList(t)
        /\ (~\E t \in RuleTitles : InList(t)) => R.improvements = <<NoIssues>>
        /\ R.total_trades = 0 => R.improvements = <<NoIssues>>

\* C4, amended: the informational entry is in the list exactly when no rule
\* fired and it is then the only entry; in the run over zero trades the
\* rank-5 rule fires (the win rate is 0), so the entry is absent there.
C4_NoIssuesIffNoRule ==
    Printed =>
        /\ InList(NoIssues) <=> ~\E t \in RuleTitles : InList(t)
        /\ (~\E t \in RuleTitles : InList(t)) => R.improvements = <<NoIssues>>
        /\ R.total_trades = 0 => (InList("5. WIN RATE") /\ ~InList(NoIssues))

\* a run in which no rule fired, over at least one trade
C4_Witness ==
    /\ Printed
    /\ R.total_trades > 0
    /\ R.improvements = <<NoIssues>>

\* C5: the stop-loss, trailing-stop and target subsets are the trades whose
\* reason contains "Stop Loss", "Trailing Stop", "Target"; a reason that
\* contains two of them is in both subsets; the End of Day subset is the
\* trades whose reason equals "End of Day".
HasStopLoss == {"Stop Loss", "End of Day Stop Loss"}
HasTrailingStop == {"Trailing Stop", "Trailing Stop - Target 1"}
HasTarget == {"Target 1", "Trailing Stop - Target 1"}
C5_SubsetsBySubstring ==
    Printed =>
        /\ R.stop_loss_trades =
              SelectSeq(R.all_trades, LAMBDA t : t.Reason \in HasStopLoss)
        /\ R.trailing_stop_trades =
              SelectSeq(R.all_trades, LAMBDA t : t.Reason \in HasTrailingStop)
        /\ R.target_trades =
              SelectSeq(R.all_trades, LAMBDA t : t.Reason \in HasTarget)
        /\ R.eod_trades =
              SelectSeq(R.all_trades, LAMBDA t : t.Reason = "End of Day")
        /\ \A j \in 1..Len(R.all_trades) :
              R.all_trades[j].Reason = "Trailing Stop - Target 1" =>
                 /\ \E k \in 1..Len(R.trailing_stop_trades) :
                       R.trailing_stop_trades[k] = R.all_trades[j]
                 /\ \E k \in 1..Len(R.target_trades) :
                       R.target_trades[k] = R.all_trades[j]

\* a run over a trade whose reason contains both "Trailing Stop" and
\* "Target", and a trade whose reason contains but is not "End of Day"
C5_Witness ==
    /\ Printed
    /\ CountOf(R.all_trades, "Trailing Stop - Target 1") > 0
    /\ CountOf(R.all_trades, "End of Day Stop Loss") > 0
    /\ CountOf(R.all_trades, "End of Day") > 0

\* no trade has a reason of the set
NoReasonIn(ts, reasons) == \A j \in 1..Len(ts) : ts[j].Reason \notin reasons

\* C12: a subset rule is not in the improvement list when its subset is
\* empty: not the rank-2 rule when no reason contains "Stop Loss", not the
\* rank-3 rule when no reason contains "Trailing Stop", not the rank-1 rule
\* when no reason equals "End of Day"; and the run over well-formed files
\* raises no error, it prints the list.
C12_NoRuleOnEmptySubset ==
    /\ pc # "failed"
    /\ pc = "done" => Printed
    /\ Printed =>
        /\ NoReasonIn(R.all_trades, HasStopLoss) => ~InList("2. STOP LOSSES")
        /\ NoReasonIn(R.all_trades, HasTrailingStop) => ~InList("3. TRAILING STOPS")
        /\ NoReasonIn(R.all_trades, {"End of Day"}) => ~InList("1. EOD EXITS")

\* a run over at least one trade, none of which is in one of the three
\* subsets: the three rules are evaluated and none is in the list
C12_Witness ==
    /\ Printed
    /\ R.total_trades > 0
    /\ NoReasonIn(R.all_trades, HasStopLoss \cup HasTrailingStop \cup {"End of Day"})
    /\ R.stop_loss_trades = << >> /\ R.trailing_stop_trades = << >>
    /\ R.eod_trades = << >>
    /\ \A t \in {"1. EOD EXITS", "2. STOP LOSSES", "3. TRAILING STOPS"} : ~InList(t)

(***************************************************************************)
(* Partitions                                                              *)
(***************************************************************************)
\* no addition of sum(xs) rounds
RECURSIVE ExactFold(_)
ExactFold(xs) ==
    IF xs = << >> THEN TRUE
    ELSE /\ ExactFold(SubSeq(xs, 1, Len(xs) - 1))
         /\ Round(ExactSum(xs)) = ExactSum(xs)

\* d is the partition of ts by the keys ks (ks[j] is the key of ts[j]):
\* every trade in exactly one entry, the counts those of the members, their
\* sum the number of trades, no entry without members
Partitions(d, ks) ==
    /\ \A j \in 1..Len(ks) : Cardinality({k \in 1..Len(d) : d[k].key = ks[j]}) = 1
    /\ \A k \in 1..Len(d) :
          /\ d[k].count = Cardinality({j \in 1..Len(ks) : ks[j] = d[k].key})
          /\ d[k].count > 0
    /\ ISum([k \in 1..Len(d) |-> d[k].count]) = Len(ks)

\* the totals of the entries of d sum to total
TotalsSumTo(d, total) == ExactSum([k \in 1..Len(d) |-> d[k].total_pnl]) = total

\* no addition rounds in the total of ts nor in the total of any entry
NoRounding(ts, ks) ==
    /\ ExactFold(NetPnLs(ts))
    /\ \A j \in 1..Len(ks) :
          ExactFold(NetPnLs(SelectSeq(
              [i \in 1..Len(ts) |-> [NetPnL |-> ts[i].NetPnL, k |-> ks[i]]],
              LAMBDA t : t.k = ks[j])))

Bucket(trade) == IF Duration(trade) < 30 THEN "short"
                 ELSE IF Duration(trade) < 120 THEN "medium" ELSE "long"
\* the three duration buckets as a mapping, the empty ones left out
Buckets ==
    SelectSeq(<<[key |-> "short", count |-> Len(R.short_trades),
                 total_pnl |-> FSum(NetPnLs(R.short_trades))],
                [key |-> "medium", count |-> Len(R.medium_trades),
                 total_pnl |-> FSum(NetPnLs(R.medium_trades))],
                [key |-> "long", count |-> Len(R.long_trades),
                 total_pnl |-> FSum(NetPnLs(R.long_trades))]>>,
              LAMBDA b : b.count > 0)
ReasonKeys == [j \in 1..Len(R.all_trades) |-> R.all_trades[j].Reason]
TickerKeys == [j \in 1..Len(R.all_trades) |-> R.all_trades[j].Ticker]
HourKeys == [j \in 1..Len(R.all_trades) |-> R.all_trades[j].EntryTime \div 60]
BucketKeys == [j \in 1..Len(R.all_trades) |-> Bucket(R.all_trades[j])]
InBucket(trade, bucket) == \E j \in 1..Len(bucket) : bucket[j] = trade
OneBucket ==
    \A j \in 1..Len(R.all_trades) :
        LET t == R.all_trades[j]
        IN  Cardinality({b \in {"short", "medium", "long"} :
               InBucket(t, CASE b = "short" -> R.short_trades
                             [] b = "medium" -> R.medium_trades
                             [] b = "long" -> R.long_trades)}) = 1

\* no addition rounds in the total net P&L nor in the total of a bucket (a
\* bucket is summed in the order of the durations)
BucketsNoRounding ==
    /\ ExactFold(NetPnLs(R.all_trades))
    /\ ExactFold(NetPnLs(R.short_trades))
    /\ ExactFold(NetPnLs(R.medium_trades))
    /\ ExactFold(NetPnLs(R.long_trades))

\* C6 as stated: by exit reason, by ticker, by entry hour and by duration
\* bucket every trade is in exactly one partition, the partition counts sum
\* to the number of trades, the partition net-P&L totals sum to the total
\* net P&L, and no mapping has a partition without members.
C6_PartitionsSumToTotals ==
    Printed =>
        /\ Partitions(R.exit_reasons, ReasonKeys)
        /\ Partitions(R.ticker_stats, TickerKeys)
        /\ Partitions(R.entry_hours, HourKeys)
        /\ Partitions(Buckets, BucketKeys) /\ OneBucket
        /\ TotalsSumTo(R.exit_reasons, R.total_net_pnl)
        /\ TotalsSumTo(R.ticker_stats, R.total_net_pnl)
        /\ TotalsSumTo(R.entry_hours, R.total_net_pnl)
        /\ TotalsSumTo(Buckets, R.total_net_pnl)

\* C6, amended: the same, the net-P&L totals of the partitions summing to
\* the total net P&L whenever no floating-point addition of these sums
\* rounds (they agree up to rounding otherwise).
C6_PartitionsSumToTotalsIfExact ==
    Printed =>
        /\ Partitions(R.exit_reasons, ReasonKeys)
        /\ Partitions(R.ticker_stats, TickerKeys)
        /\ Partitions(R.entry_hours, HourKeys)
        /\ Partitions(Buckets, BucketKeys) /\ OneBucket
        /\ NoRounding(R.all_trades, ReasonKeys) =>
              TotalsSumTo(R.exit_reasons, R.total_net_pnl)
        /\ NoRounding(R.all_trades, TickerKeys) =>
              TotalsSumTo(R.ticker_stats, R.total_net_pnl)
        /\ NoRounding(R.all_trades, HourKeys) =>
              TotalsSumTo(R.entry_hours, R.total_net_pnl)
        /\ BucketsNoRounding => TotalsSumTo(Buckets, R.total_net_pnl)

\* a run over three trades of three reasons, two tickers, three entry hours
\* and the three duration buckets, none of whose sums rounds
C6_Witness ==
    /\ Printed
    /\ Len(R.exit_reasons) = 3 /\ Len(R.ticker_stats) = 2
    /\ Len(R.entry_hours) = 3 /\ Len(Buckets) = 3
    /\ R.total_net_pnl # 0
    /\ NoRounding(R.all_trades, ReasonKeys)
    /\ BucketsNoRounding

(***************************************************************************)
(* Properties of the comparison                                            *)
(***************************************************************************)
Summarized == summary # << >>
S == summary[1]
WithReason(ts, reason) == SelectSeq(ts, LAMBDA t : t.Reason = reason)
\* the orders the files can be given in
Orders == {f \in [1..Len(results) -> 1..Len(results)] :
              \A i, j \in 1..Len(results) : f[i] = f[j] => i = j}
Reordered(f) == [j \in 1..Len(results) |-> results[f[j]]]

\* the integer statistics of the summary are those of one pass over the
\* trades of all files, in any order of the files
CountsAsOnePass ==
    /\ S.total_trades = Len(all_trades)
    /\ S.total_wins = Cardinality({j \in 1..Len(all_trades) : all_trades[j].NetPnL > 0})
    /\ S.total_losses = Cardinality({j \in 1..Len(all_trades) : all_trades[j].NetPnL < 0})
    /\ S.total_eod = CountOf(all_trades, "End of Day")
    /\ S.total_time_decay = CountOf(all_trades, "Time Decay")
    /\ S.total_afternoon =
          Cardinality({j \in 1..Len(all_trades) : all_trades[j].EntryTime >= 14 * 60})
    /\ \A f \in Orders :
          LET T == Summarize(Reordered(f))
          IN  /\ T.total_trades = S.total_trades
              /\ T.total_wins = S.total_wins
              /\ T.total_losses = S.total_losses
              /\ T.total_eod = S.total_eod
              /\ T.total_time_decay = S.total_time_decay
              /\ T.total_afternoon = S.total_afternoon

\* the P&L sums of the summary are those of one pass, in any order of the files
SumsAsOnePass ==
    /\ S.total_pnl = FSum(NetPnLs(all_trades))
    /\ S.total_eod_pnl = FSum(NetPnLs(WithReason(all_trades, "End of Day")))
    /\ S.total_time_decay_pnl = FSum(NetPnLs(WithReason(all_trades, "Time Decay")))
    /\ \A f \in Orders :
          LET T == Summarize(Reordered(f))
          IN  /\ T.total_pnl = S.total_pnl
              /\ T.total_eod_pnl = S.total_eod_pnl
              /\ T.total_time_decay_pnl = S.total_time_decay_pnl

\* no addition rounds: not in the sums of a file, not in the sums over the
\* files in any order, not in the sums of the one pass
SummaryNoRounding ==
    /\ ExactFold(NetPnLs(all_trades))
    /\ ExactFold(NetPnLs(WithReason(all_trades, "End of Day")))
    /\ ExactFold(NetPnLs(WithReason(all_trades, "Time Decay")))
    /\ \A j \in 1..Len(results) :
          LET ts == parse_csv(fs[results[j].filepath]).trades
          IN  /\ ExactFold(NetPnLs(ts))
              /\ ExactFold(NetPnLs(WithReason(ts, "End of Day")))
              /\ ExactFold(NetPnLs(WithReason(ts, "Time Decay")))
    /\ \A f \in Orders :
          /\ ExactFold([j \in 1..Len(results) |-> results[f[j]].total_net_pnl])
          /\ ExactFold([j \in 1..Len(results) |-> results[f[j]].eod_pnl])
          /\ ExactFold([j \in 1..Len(results) |-> results[f[j]].time_decay_pnl])

\* C7 as stated: every statistic of the cross-file summary, summed from the
\* results of the files, is the statistic of one pass over the trades of
\* all files, and does not depend on the order of the files.
C7_SummaryIsOnePass == Summarized => (CountsAsOnePass /\ SumsAsOnePass)

\* C7, amended: this holds of the counts (trades, wins, losses, End of Day,
\* Time Decay, afternoon entries); it holds of the three P&L sums whenever
\* no floating-point addition rounds (they agree up to rounding otherwise).
C7_SummaryIsOnePassIfExact ==
    Summarized => (CountsAsOnePass /\ (SummaryNoRounding => SumsAsOnePass))

\* a summary over two files with trades, wins, losses, End of Day and Time
\* Decay exits, none of whose sums rounds
C7_Witness ==
    /\ Summarized
    /\ Len(results) = 2
    /\ results[1].total_trades > 0 /\ results[2].total_trades > 0
    /\ results[1].filepath # results[2].filepath
    /\ S.total_wins > 0 /\ S.total_losses > 0
    /\ S.total_eod > 0 /\ S.total_time_decay > 0
    /\ S.total_eod_pnl # 0
    /\ SummaryNoRounding

(***************************************************************************)
(* Properties of the working set and of the parser                         *)
(***************************************************************************)
\* the trades of the files of the command line, one file after the other
RECURSIVE TradesOfArgs(_)
TradesOfArgs(paths) ==
    IF paths = << >> THEN << >>
    ELSE parse_csv(fs[Head(paths)]).trades \o TradesOfArgs(Tail(paths))

\* C8: the trades print_analysis works on are the trades of all files of
\* the command line, in argument order and with nothing left out, also when
\* a path is given twice: as many as the files have together, and the
\* all_trades that analyze_backtests returned.
C8_WorkingSetIsConcatenation ==
    Printed =>
        /\ R.all_trades = TradesOfArgs(argv)
        /\ R.total_trades =
              ISum([j \in 1..Len(argv) |-> Len(parse_csv(fs[argv[j]]).trades)])
        /\ R.all_trades = all_trades

Parsed == parsed # << >>
P == parsed[1]
\* the data rows of the parsed file that have a Ticker
KeptRows == SelectSeq(fs[argv[1]], LAMBDA row : row.Ticker \notin {"", None, NoKey})

\* C9: a trade has the direction SHORT when the Direction of its row is
\* absent or empty (no Direction column, an empty cell, a row shorter than
\* the header), and the Direction of its row otherwise.
C9_DirectionDefaultsToShort ==
    (Parsed /\ ~P.err) =>
        \A k \in 1..Len(P.trades) :
            P.trades[k].Direction =
                IF KeptRows[k].Direction \in {NoKey, None, ""} THEN "SHORT"
                ELSE KeptRows[k].Direction

\* C10: parse_csv returns one trade for every data row with a non-empty
\* Ticker, in the order of the rows, duplicates included; a row with an
\* empty or absent Ticker gives no trade and no error, whatever its other
\* cells hold.
C10_TradesAreRowsWithTicker ==
    Parsed =>
        /\ P.err <=> \E k \in 1..Len(KeptRows) : KeptRows[k].Bad
        /\ ~P.err =>
              /\ Len(P.trades) = Len(KeptRows)
              /\ \A k \in 1..Len(P.trades) :
                    /\ P.trades[k].Ticker = KeptRows[k].Ticker
                    /\ P.trades[k].Reason = KeptRows[k].Reason
                    /\ P.trades[k].EntryTime = KeptRows[k].EntryTime
                    /\ P.trades[k].ExitTime = KeptRows[k].ExitTime
                    /\ P.trades[k].NetPnL = Float(KeptRows[k].NetPnL)

\* a file with a row without Ticker whose other cells are malformed, a row
\* with an empty Ticker, and parse_csv returning without a trade for them
C10_Witness ==
    /\ Parsed
    /\ ~P.err
    /\ \E j \in 1..Len(fs[argv[1]]) :
          fs[argv[1]][j].Ticker = None /\ fs[argv[1]][j].Bad
    /\ Len(fs[argv[1]]) = 2
    /\ Len(P.trades) = 1
(***************************************************************************)
(* Properties of the runs that end in an error                             *)
(***************************************************************************)
\* C11: in both tools a run that ends in an error (a missing file, a row
\* with a malformed cell, in any file of the command line) has written
\* nothing to standard output, and a run that completes has written its
\* report: no run stops with a part of the report printed.
C11_NoOutputOnError ==
    /\ pc = "failed" => stdout = << >>
    /\ pc = "done" => stdout # << >>

(***************************************************************************)
(* Properties of the quotients                                             *)
(***************************************************************************)
\* a quotient whose divisor was 0 is a ZeroDivisionError
Defined(f) == f.d > 0
\* a win rate over n trades: 0 for n = 0, between 0 and 100 otherwise
IsWinRate(f, n) ==
    /\ Defined(f)
    /\ n = 0 => f.n = 0
    /\ 0 <= f.n /\ f.n <= 100 * f.d
\* an average of the trades of ts for which Test holds: 0 without such a trade
IsAverage(f, ts, Test(_)) ==
    /\ Defined(f)
    /\ (\A j \in 1..Len(ts) : ~Test(ts[j])) => f.n = 0
IsWin(t) == t.NetPnL > 0
IsLoss(t) == t.NetPnL < 0

\* C13: over every sequence of trades, the empty one and those without a
\* win or without a loss included, every quotient the two tools compute is
\* defined (no divisor is 0): a win rate is 0 when its count is 0 and lies
\* in [0, 100] otherwise, the average win and the average loss are 0 when no
\* trade is a win / a loss, the commission percentage is 0 when the total
\* net P&L is 0, and the win/loss ratio and the risk/reward rule are
\* evaluated only when the average loss is not 0.
C13_RatiosDefined ==
    /\ \A j \in 1..Len(file_stats) :
          LET st == file_stats[j]
          IN  /\ IsWinRate(st.win_rate, st.total_trades)
              /\ IsAverage(st.avg_win, st.trades, IsWin)
              /\ IsAverage(st.avg_loss, st.trades, IsLoss)
    /\ Printed =>
          /\ IsWinRate(R.overall_win_rate, R.total_trades)
          /\ IsWinRate(R.win_rate, R.total_trades)
          /\ IsAverage(R.avg_win, R.all_trades, IsWin)
          /\ IsAverage(R.avg_loss, R.all_trades, IsLoss)
          /\ Defined(R.commission_pct)
          /\ R.total_net_pnl = 0 => R.commission_pct.n = 0
          /\ \A f \in PrintedRatios(R) : Defined(f)
          /\ R.avg_loss.n = 0 => ~InList("6. RISK/REWARD")
    /\ \A j \in 1..Len(results) :
          /\ IsWinRate(results[j].win_rate, results[j].total_trades)
          /\ \A f \in PrintedRatiosOfFile(results[j],
                           parse_csv(fs[results[j].filepath]).trades) : Defined(f)
    /\ Summarized =>
          /\ IsWinRate(S.overall_win_rate, S.total_trades)
          /\ \A f \in PrintedRatiosOfSummary(S, all_trades) : Defined(f)

\* the full analysis of trades none of which is a win or a loss: the
\* total net P&L is 0, and so are the two averages and the commission
\* percentage
C13_Witness ==
    /\ Printed
    /\ R.total_trades > 0
    /\ R.wins = 0 /\ R.losses = 0
    /\ R.total_net_pnl = 0
    /\ R.commission_pct = Zero /\ R.avg_win = Zero /\ R.avg_loss = Zero
=============================================================================
